---- MODULE Spec2Model ----
(***************************************************************************)
(* A model of scripts/audit.mjs, the read-only skill auditor: the reader   *)
(* of the skill directories, the health check, the usage scan of the log   *)
(* directory, the registry lookup, the recommendation chain and the        *)
(* report.  Strings the code inspects character by character (skill        *)
(* directory names, log text, date stamps, registry output tokens) are     *)
(* sequences of one-character strings.                                     *)
(***************************************************************************)
EXTENDS Integers, Sequences, FiniteSets, TLC

VARIABLES
    fs,            \* the skill roots on disk: root -> NoDir or (dirName -> entry)
    renamed,       \* the descriptor whose `name` header differs in run 2, or NoRename
    memory,        \* MEMORY_DIR on disk: NoDir or the files readdir lists, in order
    procEnv,       \* process.env: variable name -> value ("" when unset)
    hostBins,      \* the executables `command -v` resolves on the host
    SKILL_DIRS,    \* configured roots, in order
    SKIP_HUB,      \* SKIP_HUB flag
    DAYS_BACK,     \* AUDIT_DAYS
    now,           \* wall clock, in hours since 2026-01-01T00:00Z
    pc,            \* position of main: "read","sort","process","render","done","failed"
    d,             \* index into SKILL_DIRS of the directory read next
    i,             \* index into allSkills of the skill processed next
    skillMap,      \* run -> (dirName -> record), with the insertion order
    allSkills,     \* run -> sorted sequence of records
    hubAvailable,  \* main's hubAvailable
    results,       \* run -> sequence of result rows
    report,        \* run -> the rendered report, or NoReport
    exitStatus,    \* -1 while running, 0 after a report, 1 after main().catch
    stdout,        \* TRUE once the report was printed
    shellLog,      \* the simple commands the spawned shells have run, with their status
    call,          \* arguments of a direct call of checkUsage, or NoCall
    ret            \* what that call returned or threw, or NoRet

vars == << fs, renamed, memory, procEnv, hostBins, SKILL_DIRS, SKIP_HUB, DAYS_BACK,
           now, pc, d, i, skillMap, allSkills, hubAvailable, results, report,
           exitStatus, stdout, shellLog, call, ret >>

-----------------------------------------------------------------------------
(* Characters and strings *)

\* String.prototype.toLowerCase, on the characters the model uses
LowerChar(c) == IF c = "A" THEN "a" ELSE IF c = "B" THEN "b" ELSE c

toLowerCase(s) == [k \in 1..Len(s) |-> LowerChar(s[k])]

\* the characters the regular-expression class \s matches
Whitespace == {" ", "\n"}

\* UTF-16 code units of the characters that occur in date stamps
CharCode(c) ==
    CASE c = "-" -> 45
      [] c = "0" -> 48 [] c = "1" -> 49 [] c = "2" -> 50 [] c = "3" -> 51
      [] c = "4" -> 52 [] c = "5" -> 53 [] c = "6" -> 54 [] c = "7" -> 55
      [] c = "8" -> 56 [] c = "9" -> 57
      [] OTHER -> 0

Digits == {"0", "1", "2", "3", "4", "5", "6", "7", "8", "9"}

RECURSIVE StrGE(_, _, _)
\* JavaScript's s >= t on strings: code-unit lexicographic order, from index k
StrGE(s, t, k) ==
    IF k > Len(t) THEN TRUE
    ELSE IF k > Len(s) THEN FALSE
    ELSE IF CharCode(s[k]) # CharCode(t[k]) THEN CharCode(s[k]) > CharCode(t[k])
    ELSE StrGE(s, t, k + 1)

-----------------------------------------------------------------------------
(* new RegExp(skillName.replace(/-/g, "[\\s-]"), "gi") and String.match *)

SepClass == "[\\s-]"

\* skillName.replace(/-/g, "[\\s-]"): every hyphen becomes the class token
ReplaceHyphens(skillName) ==
    [k \in 1..Len(skillName) |-> IF skillName[k] = "-" THEN SepClass ELSE skillName[k]]

RECURSIVE ParseRegExp(_, _, _)
\* The RegExp constructor on the replaced source: "+" quantifies the atom before
\* it and is a SyntaxError ("Nothing to repeat") with no atom, or a quantified
\* one, before it.  Every other character of the model is an atom.
ParseRegExp(src, k, atoms) ==
    IF k > Len(src) THEN [ok |-> TRUE, atoms |-> atoms]
    ELSE IF src[k] = "+" THEN
        IF atoms = <<>> \/ atoms[Len(atoms)].plus
        THEN [ok |-> FALSE, atoms |-> <<>>]
        ELSE ParseRegExp(src, k + 1,
                 [atoms EXCEPT ![Len(atoms)] = [@ EXCEPT !.plus = TRUE]])
    ELSE ParseRegExp(src, k + 1, Append(atoms, [tok |-> src[k], plus |-> FALSE]))

RegExp(src) == ParseRegExp(src, 1, <<>>)

\* one atom against one character, under the "i" flag
AtomMatches(atom, c) ==
    IF atom.tok = SepClass THEN c \in Whitespace \cup {"-"}
    ELSE LowerChar(c) = LowerChar(atom.tok)

RECURSIVE RunLength(_, _, _)
\* how many consecutive characters from pos the atom matches
RunLength(atom, text, pos) ==
    IF pos <= Len(text) /\ AtomMatches(atom, text[pos])
    THEN 1 + RunLength(atom, text, pos + 1)
    ELSE 0

RECURSIVE MatchHere(_, _, _, _)
RECURSIVE TryRepeat(_, _, _, _, _)
\* The backtracking matcher: the index after the match of atoms[k..] at pos, or
\* -1.  A quantified atom is greedy: the longest run is tried first.
MatchHere(atoms, k, text, pos) ==
    IF k > Len(atoms) THEN pos
    ELSE IF atoms[k].plus
         THEN TryRepeat(atoms, k, text, pos, RunLength(atoms[k], text, pos))
    ELSE IF pos <= Len(text) /\ AtomMatches(atoms[k], text[pos])
         THEN MatchHere(atoms, k + 1, text, pos + 1)
    ELSE -1

TryRepeat(atoms, k, text, pos, m) ==
    IF m < 1 THEN -1
    ELSE LET e == MatchHere(atoms, k + 1, text, pos + m)
         IN  IF e # -1 THEN e ELSE TryRepeat(atoms, k, text, pos, m - 1)

RECURSIVE CountFrom(_, _, _, _)
\* content.match(pattern) under the "g" flag: leftmost matches, each search
\* resuming where the last match ended
CountFrom(atoms, text, pos, acc) ==
    IF pos > Len(text) THEN acc
    ELSE LET e == MatchHere(atoms, 1, text, pos)
         IN  IF e = -1 THEN CountFrom(atoms, text, pos + 1, acc)
             ELSE CountFrom(atoms, text, IF e > pos THEN e ELSE pos + 1, acc + 1)

\* (content.match(pattern) || []).length
MatchCount(pattern, content) == CountFrom(pattern.atoms, content, 1, 0)

-----------------------------------------------------------------------------
(* Dates: new Date(), setDate, toISOString().slice(0, 10) *)

MonthLengths == <<31, 28, 31, 30, 31, 30, 31, 31, 30, 31, 30, 31>>

DigitChar(n) == <<"0", "1", "2", "3", "4", "5", "6", "7", "8", "9">>[n + 1]

TwoDigits(n) == <<DigitChar(n \div 10), DigitChar(n % 10)>>

RECURSIVE MonthDay(_, _)
\* month and day of month of the n-th day (from 0) of 2026, counting from month m
MonthDay(n, m) ==
    IF n < MonthLengths[m] THEN <<m, n + 1>> ELSE MonthDay(n - MonthLengths[m], m + 1)

\* toISOString().slice(0, 10) of an instant of 2026 (hours since 2026-01-01T00:00Z)
ISODate(t) ==
    LET md == MonthDay(t \div 24, 1)
    IN  <<"2", "0", "2", "6", "-">> \o TwoDigits(md[1]) \o <<"-">> \o TwoDigits(md[2])

\* cutoff.setDate(cutoff.getDate() - DAYS_BACK), the host clock being UTC
Cutoff(t, days) == t - days * 24

-----------------------------------------------------------------------------
(* checkUsage *)

NoDir == [exists |-> FALSE, files |-> <<>>]

\* f.match(/^(\d{4}-\d{2}-\d{2})\.md$/)
dateMatch(f) ==
    /\ f.ext = "md"
    /\ Len(f.stem) = 10
    /\ \A k \in 1..10 : IF k \in {5, 8} THEN f.stem[k] = "-" ELSE f.stem[k] \in Digits

RECURSIVE ScanFiles(_, _, _, _, _, _)
\* the loop over readdir's listing: dated files by their name, other .log and .md
\* files by their mtime, everything else skipped
ScanFiles(files, k, pattern, cutoff, cutoffStr, count) ==
    IF k > Len(files) THEN count
    ELSE LET f == files[k]
         IN  IF dateMatch(f)
             THEN ScanFiles(files, k + 1, pattern, cutoff, cutoffStr,
                      IF StrGE(f.stem, cutoffStr, 1)
                      THEN count + MatchCount(pattern, f.content) ELSE count)
             ELSE IF f.ext = "log" \/ f.ext = "md"
             THEN ScanFiles(files, k + 1, pattern, cutoff, cutoffStr,
                      IF f.mtime >= cutoff
                      THEN count + MatchCount(pattern, f.content) ELSE count)
             ELSE ScanFiles(files, k + 1, pattern, cutoff, cutoffStr, count)

\* checkUsage(skillName) against the log directory mem, at time t with window days:
\* the count it returns, or threw when the RegExp constructor rejects the name
checkUsage(skillName, mem, days, t) ==
    IF ~mem.exists THEN [threw |-> FALSE, count |-> 0]
    ELSE LET cutoff == Cutoff(t, days)
             pattern == RegExp(ReplaceHyphens(skillName))
         IN  IF ~pattern.ok THEN [threw |-> TRUE, count |-> 0]
             ELSE [threw |-> FALSE,
                   count |-> ScanFiles(mem.files, 1, pattern, cutoff, ISODate(cutoff), 0)]

-----------------------------------------------------------------------------
(* JSON values of the metadata blob, and getNestedField *)

Undefined == [t |-> "undefined"]
Obj(f) == [t |-> "object", v |-> f]
Arr(s) == [t |-> "array", v |-> s]
StrV(s) == [t |-> "string", v |-> s]
EmptyObj == Obj(<<>>)

\* val[k] on a JSON value
Prop(val, k) ==
    IF val.t = "object" /\ k \in DOMAIN val.v THEN val.v[k] ELSE Undefined

RECURSIVE WalkPath(_, _, _)
WalkPath(val, keys, k) ==
    IF k > Len(keys) THEN val
    ELSE IF val.t \notin {"object", "array"} THEN Undefined
    ELSE WalkPath(Prop(val, keys[k]), keys, k + 1)

\* getNestedField(obj, path), path already split at the dots
getNestedField(obj, path) == WalkPath(obj, path, 1)

\* x || dflt, for a JSON value x
OrElse(x, dflt) == IF x.t = "undefined" THEN dflt ELSE x

-----------------------------------------------------------------------------
(* The shell execSync spawns.  A command line is the sequence of words the *)
(* shell splits it into; ";" ends a simple command.                        *)

\* one simple command: its exit status and what it does to the log directory
RunSimple(c, mem) ==
    IF Len(c) >= 3 /\ c[1] = "command" /\ c[2] = "-v"
    THEN [status |-> IF c[3] \in hostBins THEN 0 ELSE 1, memory |-> mem]
    ELSE IF c = <<"rm", "-rf", "memory">>
    THEN [status |-> 0, memory |-> NoDir]
    ELSE [status |-> 127, memory |-> mem]

RECURSIVE RunWords(_, _, _, _)
\* the shell's loop over the words: st is [status, memory, log]
RunWords(words, k, cur, st) ==
    LET run == IF cur = <<>> THEN st
               ELSE LET r == RunSimple(cur, st.memory)
                    IN  [status |-> r.status, memory |-> r.memory,
                         log |-> Append(st.log, [prog |-> cur[1], args |-> Tail(cur),
                                                 status |-> r.status])]
    IN  IF k > Len(words) THEN run
        ELSE IF words[k] = ";" THEN RunWords(words, k + 1, <<>>, run)
        ELSE RunWords(words, k + 1, Append(cur, words[k]), st)

\* sh -c <words>: the status of the last simple command, and the effects of all
RunShell(words, mem, log) ==
    RunWords(words, 1, <<>>, [status |-> 0, memory |-> mem, log |-> log])

\* commandExists(cmd): execSync(`command -v ${cmd}`) threw or not.  cmd is the
\* word sequence its text splits into, pasted into the command line as it is.
commandExists(cmd, mem, log) ==
    LET r == RunShell(<<"command", "-v">> \o cmd, mem, log)
    IN  [exists |-> r.status = 0, memory |-> r.memory, log |-> r.log]

\* envExists(name): !!process.env[name]
envExists(name) == name \in DOMAIN procEnv /\ procEnv[name] # ""

-----------------------------------------------------------------------------
(* checkHealth *)

RECURSIVE FilterBins(_, _, _)
\* bins.filter((b) => !commandExists(b)), one shell per declared executable
FilterBins(bins, k, st) ==
    IF k > Len(bins) THEN st
    ELSE LET r == commandExists(bins[k], st.memory, st.log)
         IN  FilterBins(bins, k + 1,
                 [missing |-> IF r.exists THEN st.missing ELSE Append(st.missing, bins[k]),
                  memory |-> r.memory, log |-> r.log])

RECURSIVE FilterEnvs(_, _, _)
FilterEnvs(envs, k, acc) ==
    IF k > Len(envs) THEN acc
    ELSE FilterEnvs(envs, k + 1, IF envExists(envs[k]) THEN acc ELSE Append(acc, envs[k]))

\* checkHealth(meta), with the log directory and shell log its subprocesses leave
checkHealth(meta, mem, log) ==
    LET requires == OrElse(getNestedField(meta, <<"clawdbot", "requires">>), EmptyObj)
        bins == OrElse(Prop(requires, "bins"), Arr(<<>>)).v
        envs == OrElse(Prop(requires, "env"), Arr(<<>>)).v
        fb == FilterBins(bins, 1, [missing |-> <<>>, memory |-> mem, log |-> log])
    IN  [missingBins |-> fb.missing, missingEnvs |-> FilterEnvs(envs, 1, <<>>),
         bins |-> bins, envs |-> envs, memory |-> fb.memory, log |-> fb.log]

-----------------------------------------------------------------------------
(* checkHubVersion *)

VNotFound == <<"n", "o", "t", " ", "f", "o", "u", "n", "d">>
VNA == <<"n", "/", "a">>
VError == <<"e", "r", "r", "o", "r">>
VUnknown == <<"u", "n", "k", "n", "o", "w", "n">>

\* parts[1]?.replace(/^v/, "") || "unknown"
VersionOf(parts) ==
    LET raw == IF Len(parts) >= 2 THEN parts[2] ELSE <<>>
        ver == IF raw # <<>> /\ raw[1] = "v" THEN Tail(raw) ELSE raw
    IN  IF ver = <<>> THEN VUnknown ELSE ver

RECURSIVE ScanLines(_, _, _)
\* the loop over output.split("\n"); a line is its trimmed, whitespace-split parts
ScanLines(lines, k, skillName) ==
    IF k > Len(lines) THEN [available |-> TRUE, version |-> VNotFound]
    ELSE LET parts == lines[k]
         IN  IF Len(parts) >= 1 /\ parts[1] # <<>>
                /\ toLowerCase(parts[1]) = toLowerCase(skillName)
             THEN [available |-> TRUE, version |-> VersionOf(parts)]
             ELSE ScanLines(lines, k + 1, skillName)

\* checkHubVersion with a failed search reported as an absent registry
checkHubVersionFailAsNA(skillName, search, mem, log) ==
    LET ce == commandExists(<<"clawdhub">>, mem, log)
    IN  IF ~ce.exists \/ search.failed
        THEN [hub |-> [available |-> FALSE, version |-> VNA],
              memory |-> ce.memory,
              log |-> IF ce.exists
                      THEN Append(ce.log, [prog |-> "clawdhub",
                                           args |-> <<"search", skillName>>, status |-> 1])
                      ELSE ce.log]
        ELSE [hub |-> ScanLines(search.lines, 1, skillName),
              memory |-> ce.memory,
              log |-> Append(ce.log, [prog |-> "clawdhub", args |-> <<"search", skillName>>,
                                      status |-> 0])]

\* checkHubVersion(skillName); search is what `clawdhub search` does this time:
\* it fails or times out, or prints lines
checkHubVersion(skillName, search, mem, log) ==
    LET ce == commandExists(<<"clawdhub">>, mem, log)
    IN  IF ~ce.exists
        THEN [hub |-> [available |-> FALSE, version |-> VNA],
              memory |-> ce.memory, log |-> ce.log]
        ELSE [hub |-> IF search.failed THEN [available |-> TRUE, version |-> VError]
                      ELSE ScanLines(search.lines, 1, skillName),
              memory |-> ce.memory,
              log |-> Append(ce.log, [prog |-> "clawdhub", args |-> <<"search", skillName>>,
                                      status |-> IF search.failed THEN 1 ELSE 0])]

-----------------------------------------------------------------------------
(* The recommendation chain of main *)

\* the chain with the usage test moved to the front
RecommendUsageFirst(health, usage, hub) ==
    IF usage > 0 THEN "keep"
    ELSE IF Len(health.missingBins) > 0 THEN "remove"
    ELSE "review"

\* the chain with an unused skill that the registry knows sent to `update`
RecommendUpdate(health, usage, hub) ==
    IF Len(health.missingBins) > 0 THEN "remove"
    ELSE IF hub.version # VNotFound /\ hub.version # VNA /\ hub.version # VError
         THEN (IF usage > 0 THEN "keep" ELSE "update")
    ELSE IF usage > 0 THEN "keep"
    ELSE "review"

\* lines 201-213 of main
Recommend(health, usage, hub) ==
    IF Len(health.missingBins) > 0 THEN "remove"
    ELSE IF hub.version # VNotFound /\ hub.version # VNA /\ hub.version # VError
         THEN (IF usage > 0 THEN "keep" ELSE "review")
    ELSE IF usage > 0 THEN "keep"
    ELSE IF Len(health.missingEnvs) > 0 THEN "review"
    ELSE "review"

-----------------------------------------------------------------------------
(* The skill roots on disk and parseFrontmatter *)

\* the subdirectory names readdir lists in a root, in its order
NameA == <<"a">>
NameAB == <<"a", "-", "b">>
NameCpp == <<"a", "+", "+">>
DirListing == <<NameA, NameAB, NameCpp>>
DirNames == {DirListing[k] : k \in 1..Len(DirListing)}

NoRename == [on |-> FALSE, root |-> 0, dirName |-> <<>>, name |-> <<>>]

\* the header block of root/dirName/SKILL.md as run r reads it: the two runs
\* differ in the `name` field of the renamed descriptor only
ContentOf(root, dirName, r) ==
    LET e == fs[root].entries[dirName]
    IN  [name |-> IF r = 2 /\ renamed.on /\ renamed.root = root /\ renamed.dirName = dirName
                  THEN renamed.name ELSE e.name,
         metadata |-> e.metadata]

\* JSON.parse(result.metadata): the value, or a SyntaxError
JSONparse(raw) ==
    IF raw.kind = "json" THEN [ok |-> TRUE, v |-> raw.json] ELSE [ok |-> FALSE, v |-> Undefined]

\* parseFrontmatter(content): the fields getSkillsFromDir reads.  A header value
\* is at least one character long, so an absent key and "" are one case.
parseFrontmatter(content) ==
    [name |-> content.name,
     _meta |-> IF content.metadata.kind = "none" THEN Undefined
               ELSE LET j == JSONparse(content.metadata)
                    IN  IF j.ok THEN j.v ELSE EmptyObj]

RECURSIVE ReadEntries(_, _, _, _)
\* the loop of getSkillsFromDir over the entries: exists(skillFile) is a stat and
\* succeeds on a file that cannot be read; readFile on it rejects, and nothing
\* catches that
ReadEntries(root, k, r, skills) ==
    IF k > Len(DirListing) THEN [threw |-> FALSE, skills |-> skills]
    ELSE LET dn == DirListing[k]
             e == fs[root].entries[dn]
         IN  IF e.st = "missing" THEN ReadEntries(root, k + 1, r, skills)
             ELSE IF e.st = "unreadable" THEN [threw |-> TRUE, skills |-> <<>>]
             ELSE LET fm == parseFrontmatter(ContentOf(root, dn, r))
                  IN  ReadEntries(root, k + 1, r,
                          Append(skills,
                              [dirName |-> dn,
                               name |-> IF fm.name # <<>> THEN fm.name ELSE dn,
                               meta |-> OrElse(fm._meta, EmptyObj),
                               path |-> <<root, dn>>]))

\* getSkillsFromDir(dir) as run r sees it
getSkillsFromDir(root, r) ==
    IF ~fs[root].exists THEN [threw |-> FALSE, skills |-> <<>>]
    ELSE ReadEntries(root, 1, r, <<>>)

\* dir.replace(homedir(), "~"): roots with an odd number lie under the home directory
dirLabel(root) == [tilde |-> root % 2 = 1, tail |-> root]

-----------------------------------------------------------------------------
(* skillMap: a Map, as its entries in insertion order *)

RECURSIVE IndexOfKey(_, _, _)
IndexOfKey(m, key, k) ==
    IF k > Len(m) THEN 0 ELSE IF m[k].key = key THEN k ELSE IndexOfKey(m, key, k + 1)

\* Map.prototype.set without overwriting: a plausible slip, the first root wins
MapSetKeepFirst(m, key, val) ==
    IF IndexOfKey(m, key, 1) = 0 THEN Append(m, [key |-> key, val |-> val]) ELSE m

\* Map.prototype.set: a known key keeps its place and takes the new value
MapSet(m, key, val) ==
    LET at == IndexOfKey(m, key, 1)
    IN  IF at = 0 THEN Append(m, [key |-> key, val |-> val])
        ELSE [m EXCEPT ![at] = [key |-> key, val |-> val]]

\* the key by the declared name: the slip the directory-name key rules out
SkillKeyByName(s) == s.name

\* the key of skillMap.set(s.dirName, ...)
SkillKey(s) == s.dirName

RECURSIVE MergeSkills(_, _, _, _)
\* for (const s of skills) skillMap.set(s.dirName, { ...s, source: dirLabel })
MergeSkills(m, skills, k, label) ==
    IF k > Len(skills) THEN m
    ELSE MergeSkills(
             MapSet(m, SkillKey(skills[k]),
                    [dirName |-> skills[k].dirName, name |-> skills[k].name,
                     meta |-> skills[k].meta, path |-> skills[k].path, source |-> label]),
             skills, k + 1, label)

\* collation rank of the characters of names: punctuation before letters
CollationRank(c) ==
    CASE c = "-" -> 1 [] c = "+" -> 2 [] c = "a" -> 3 [] c = "b" -> 4 [] OTHER -> 5

RECURSIVE localeCompare(_, _, _)
\* a.localeCompare(b), from index k: negative, zero or positive
localeCompare(a, b, k) ==
    IF k > Len(a) /\ k > Len(b) THEN 0
    ELSE IF k > Len(a) THEN -1
    ELSE IF k > Len(b) THEN 1
    ELSE IF CollationRank(a[k]) # CollationRank(b[k])
         THEN CollationRank(a[k]) - CollationRank(b[k])
    ELSE localeCompare(a, b, k + 1)

RECURSIVE InsertSorted(_, _, _)
\* x into the sorted sequence, after every element that does not compare above it
InsertSorted(sorted, x, k) ==
    IF k > Len(sorted) THEN Append(sorted, x)
    ELSE IF localeCompare(sorted[k].dirName, x.dirName, 1) > 0
         THEN SubSeq(sorted, 1, k - 1) \o <<x>> \o SubSeq(sorted, k, Len(sorted))
    ELSE InsertSorted(sorted, x, k + 1)

RECURSIVE SortFrom(_, _, _)
SortFrom(m, k, sorted) ==
    IF k > Len(m) THEN sorted ELSE SortFrom(m, k + 1, InsertSorted(sorted, m[k].val, 1))

\* [...skillMap.values()].sort((a, b) => a.dirName.localeCompare(b.dirName)): stable
SortedSkills(m) == SortFrom(m, 1, <<>>)

-----------------------------------------------------------------------------
(* The body of main's loop over allSkills *)

\* what `clawdhub search "<skillName>"` does: it fails or times out, prints
\* nothing that matches, prints a line for the skill with a version, or prints
\* the bare identifier
SearchKinds == {"fail", "none", "hit", "bare"}

toUpperCase(s) == [k \in 1..Len(s) |-> IF s[k] = "a" THEN "A" ELSE IF s[k] = "b" THEN "B" ELSE s[k]]

SearchResult(kind, skillName) ==
    [failed |-> kind = "fail",
     lines |-> CASE kind = "hit" ->
                      << <<skillName \o <<"x">>, <<"v", "9">>>>,
                         <<toUpperCase(skillName), <<"v", "1", ".", "2">>, <<"N">>>>,
                         <<>> >>
                 [] kind = "bare" -> << <<skillName>>, <<>> >>
                 [] OTHER -> << <<skillName \o <<"x">>, <<"v", "9">>>>, <<>> >>]

\* the result row and the recommendation, once the three checks have returned
MakeRow(skill, health, usage, hub) ==
    [skill |-> skill,
     emoji |-> OrElse(getNestedField(skill.meta, <<"clawdbot", "emoji">>), StrV("")).v,
     health |-> health, usage |-> usage, hub |-> hub,
     bins |-> OrElse(getNestedField(skill.meta, <<"clawdbot", "requires", "bins">>),
                     Arr(<<>>)).v,
     rec |-> Recommend(health, usage, hub)]

\* the registry step: checkHubVersion when hubAvailable, else the n/a result
HubStep(skill, kind, mem, log) ==
    IF hubAvailable
    THEN checkHubVersion(skill.dirName, SearchResult(kind, skill.dirName), mem, log)
    ELSE [hub |-> [available |-> FALSE, version |-> VNA], memory |-> mem, log |-> log]

HealthOnly(h) ==
    [missingBins |-> h.missingBins, missingEnvs |-> h.missingEnvs,
     bins |-> h.bins, envs |-> h.envs]

AfterHub(skill, health, usage, hub) ==
    [threw |-> FALSE, row |-> MakeRow(skill, HealthOnly(health), usage.count, hub.hub),
     memory |-> hub.memory, log |-> hub.log]

AfterUsage(skill, kind, health, usage) ==
    IF usage.threw
    THEN [threw |-> TRUE, row |-> <<>>, memory |-> health.memory, log |-> health.log]
    ELSE AfterHub(skill, health, usage, HubStep(skill, kind, health.memory, health.log))

AfterHealth(skill, kind, health) ==
    AfterUsage(skill, kind, health, checkUsage(skill.dirName, health.memory, DAYS_BACK, now))

\* one iteration of the loop: health, usage, registry, recommendation, in the
\* order of the code; a throw of checkUsage leaves the loop after checkHealth ran
ProcessOne(skill, kind, mem, log) ==
    AfterHealth(skill, kind, checkHealth(skill.meta, mem, log))

-----------------------------------------------------------------------------
(* The report *)

\* the health column with the environment branch lost
FormatHealthBinsOnly(health) ==
    IF Len(health.missingBins) > 0 THEN [icon |-> "cross", items |-> health.missingBins]
    ELSE [icon |-> "check", items |-> <<>>]

\* the health column
FormatHealth(health) ==
    IF Len(health.missingBins) > 0 THEN [icon |-> "cross", items |-> health.missingBins]
    ELSE IF Len(health.missingEnvs) > 0 THEN [icon |-> "warn-env", items |-> health.missingEnvs]
    ELSE [icon |-> "check", items |-> <<>>]

\* the hub column
FormatHub(hub) ==
    IF hub.version = VNotFound THEN [text |-> "dash", version |-> <<>>]
    ELSE IF hub.version = VNA THEN [text |-> "n/a", version |-> <<>>]
    ELSE IF hub.version = VError THEN [text |-> "err", version |-> <<>>]
    ELSE [text |-> "v", version |-> hub.version]

\* the usage column
FormatUsage(usage) == IF usage > 0 THEN [text |-> "count", n |-> usage] ELSE [text |-> "dash", n |-> 0]

FormatRow(r, idx) ==
    [index |-> idx,
     name |-> [emoji |-> r.emoji, dirName |-> r.skill.dirName],
     source |-> r.skill.source,
     bins |-> IF r.bins = <<>> THEN [text |-> "dash", items |-> <<>>]
              ELSE [text |-> "list", items |-> r.bins],
     usage |-> FormatUsage(r.usage),
     health |-> FormatHealth(r.health),
     hub |-> FormatHub(r.hub),
     rec |-> r.rec]

RECURSIVE CountRec(_, _, _)
CountRec(rs, rec, k) ==
    IF k > Len(rs) THEN 0 ELSE (IF rs[k].rec = rec THEN 1 ELSE 0) + CountRec(rs, rec, k + 1)

\* tally[r.rec]++ over the results
Tally(rs) ==
    [keep |-> CountRec(rs, "keep", 1), update |-> CountRec(rs, "update", 1),
     review |-> CountRec(rs, "review", 1), remove |-> CountRec(rs, "remove", 1)]

IsBroken(r) == r.rec = "remove"

\* the env filter without its second conjunct: a removed skill listed twice
IsEnvIssueAll(r) == Len(r.health.missingEnvs) > 0

IsEnvIssue(r) == Len(r.health.missingEnvs) > 0 /\ r.rec # "remove"

BrokenLine(r) == [skill |-> r.skill.dirName, icon |-> "broken", items |-> r.health.missingBins]
EnvLine(r) == [skill |-> r.skill.dirName, icon |-> "missing-env", items |-> r.health.missingEnvs]

\* the needs-attention section: the no-issues line, or the broken skills and
\* then the skills with missing environment variables
Attention(rs) ==
    LET broken == SelectSeq(rs, IsBroken)
        envIssues == SelectSeq(rs, IsEnvIssue)
    IN  IF Len(broken) = 0 /\ Len(envIssues) = 0
        THEN [noIssues |-> TRUE, lines |-> <<>>]
        ELSE [noIssues |-> FALSE,
              lines |-> [k \in 1..Len(broken) |-> BrokenLine(broken[k])]
                        \o [k \in 1..Len(envIssues) |-> EnvLine(envIssues[k])]]

NoReport == [printed |-> FALSE]

\* the lines main prints
Report(skills, rs) ==
    [printed |-> TRUE,
     total |-> Len(skills),
     hub |-> hubAvailable,
     window |-> DAYS_BACK,
     tally |-> Tally(rs),
     rows |-> [k \in 1..Len(rs) |-> FormatRow(rs[k], k)],
     attention |-> Attention(rs),
     footer |-> "read-only"]

-----------------------------------------------------------------------------
(* Inputs: descriptors, log directories, host *)

\* the largest number of configured roots, and the largest window in days
MaxDirs == 2
MaxDays == 7
\* the most files in the log directory of a direct call of checkUsage
MaxFiles == 2

\* a declared executable is the words the shell splits its text into
Curl == <<"curl">>
Zzz == <<"zzznotarealbin">>
Inject == <<"zzznotarealbin", ";", "rm", "-rf", "memory">>

MetaRequires(bins, envs) ==
    Obj([clawdbot |-> Obj([requires |-> Obj([bins |-> Arr(bins), env |-> Arr(envs)])])])
MetaPlain == Obj([clawdbot |-> Obj([emoji |-> StrV("wrench")])])

RawNone == [kind |-> "none", json |-> Undefined]
RawBad == [kind |-> "bad", json |-> Undefined]
RawJson(j) == [kind |-> "json", json |-> j]

Missing == [st |-> "missing", name |-> <<>>, metadata |-> RawNone]
Unreadable == [st |-> "unreadable", name |-> <<>>, metadata |-> RawNone]
FileEntry(raw) == [st |-> "file", name |-> <<>>, metadata |-> raw]

MetaBoth == MetaRequires(<<Zzz>>, <<"TOKEN">>)
MetaEnv == MetaRequires(<<Curl>>, <<"KEY", "TOKEN", "EMPTY">>)
MetaBin == MetaRequires(<<Curl, Zzz>>, <<"KEY">>)
MetaInject == MetaRequires(<<Inject>>, <<>>)

\* the entries of the default configuration's single root
MainEntries ==
    {Missing, FileEntry(RawBad), FileEntry(RawJson(MetaPlain)), FileEntry(RawJson(MetaBin)),
     FileEntry(RawJson(MetaBoth)), FileEntry(RawJson(MetaEnv)), FileEntry(RawJson(MetaInject))}

\* the entries of the roots of a multi-root configuration
ReadEntrySet ==
    {Missing, Unreadable, FileEntry(RawBad), FileEntry(RawNone), FileEntry(RawJson(MetaBoth))}

Today == 306 * 24 + 12

Text1 == <<"a", "-", "b", " ", "a", " ", "b", " ", "A", "-", "B">>
Text2 == <<"a", "a", " ", "a", "+">>
Text3 == <<"a", " ", "A", " ", "a">>

Dir(files) == [exists |-> TRUE, files |-> files]
Dated(daysAgo, mtime, content) ==
    [stem |-> ISODate(Today - daysAgo * 24), ext |-> "md", mtime |-> mtime, content |-> content]
Other(stem, ext, mtime, content) ==
    [stem |-> stem, ext |-> ext, mtime |-> mtime, content |-> content]

MainMemories ==
    {NoDir, Dir(<<>>), Dir(<<Dated(0, Today, Text1)>>), Dir(<<Dated(0, Today, Text3)>>)}

\* the files a direct call of checkUsage may find
UsageFiles ==
    {Dated(k, m, Text1) : k \in {0, 1, MaxDays, MaxDays + 1}, m \in {Today, Today - 30 * 24}}
    \cup {Other(st, ext, Today - h, Text2) :
             st \in {<<"n">>, <<"2", "0", "2", "6", "-", "1", "1", "-", "3">>},
             ext \in {"log", "md", "txt"},
             h \in {0, 24, 25, MaxDays * 24 + 1}}

UsageNames == DirNames \cup {<<"a", "+">>, <<"+", "a">>}

SeqsUpTo(S, n) == UNION {[1..k -> S] : k \in 0..n}

HostBinsSets == {{"curl", "rm"}, {"curl", "rm", "clawdhub"}}

NoCall == [pending |-> FALSE, skillName |-> <<>>]
NoRet == [st |-> "none", count |-> 0]

-----------------------------------------------------------------------------
(* Initial states *)

\* the two runs of a renaming, or the one run
RunSet == IF renamed.on THEN {1, 2} ELSE {1}

InitProgram ==
    /\ pc = "read" /\ d = 1 /\ i = 1
    /\ skillMap = [r \in RunSet |-> <<>>]
    /\ allSkills = [r \in RunSet |-> <<>>]
    /\ results = [r \in RunSet |-> <<>>]
    /\ report = [r \in RunSet |-> NoReport]
    /\ hubAvailable = FALSE
    /\ exitStatus = -1 /\ stdout = FALSE /\ shellLog = <<>>
    /\ call = NoCall /\ ret = NoRet

\* the default configuration: one root, AUDIT_DAYS unset
Init ==
    /\ SKILL_DIRS = <<1>>
    /\ fs \in [{1} -> {[exists |-> TRUE, entries |-> e] : e \in [DirNames -> MainEntries]}]
    /\ renamed = NoRename
    /\ memory \in MainMemories
    /\ procEnv = [KEY |-> "k", EMPTY |-> ""]
    /\ hostBins \in HostBinsSets
    /\ SKIP_HUB \in BOOLEAN
    /\ DAYS_BACK = 7
    /\ now = Today
    /\ InitProgram

\* the contents of one root of a multi-root configuration
ReadRoots ==
    {[exists |-> FALSE, entries |-> [n \in DirNames |-> Missing]]}
    \cup {[exists |-> TRUE, entries |-> e] :
             e \in {f \in [DirNames -> ReadEntrySet] : f[NameCpp] = Missing}}

InitRoots ==
    /\ SKILL_DIRS \in {[k \in 1..n |-> k] : n \in 1..MaxDirs}
    /\ fs \in [1..Len(SKILL_DIRS) -> ReadRoots]
    /\ memory = Dir(<<Dated(0, Today, Text1)>>)
    /\ procEnv = [KEY |-> "k", EMPTY |-> ""]
    /\ hostBins = {"curl", "rm", "clawdhub"}
    /\ SKIP_HUB = TRUE
    /\ DAYS_BACK = 7
    /\ now = Today

\* SKILL_DIRS set to several roots
InitRead == InitRoots /\ renamed = NoRename /\ InitProgram

\* the same, run twice: the second run reads one descriptor with another `name`
InitRename ==
    /\ InitRoots
    /\ renamed \in {[on |-> TRUE, root |-> r, dirName |-> n, name |-> x] :
                       r \in 1..Len(SKILL_DIRS), n \in {NameA, NameAB}, x \in {<<"x">>, NameA}}
    /\ fs[renamed.root].exists /\ fs[renamed.root].entries[renamed.dirName].st = "file"
    /\ InitProgram

\* a direct call of checkUsage
InitUsage ==
    /\ SKILL_DIRS = <<1>>
    /\ fs = [r \in {1} |-> [exists |-> FALSE, entries |-> [n \in DirNames |-> Missing]]]
    /\ renamed = NoRename
    /\ memory \in {NoDir} \cup {Dir(fl) : fl \in SeqsUpTo(UsageFiles, MaxFiles)}
    /\ procEnv = [KEY |-> "k", EMPTY |-> ""]
    /\ hostBins = {"curl", "rm"}
    /\ SKIP_HUB = TRUE
    /\ DAYS_BACK \in 0..MaxDays
    /\ now = Today
    /\ pc = "call" /\ d = 1 /\ i = 1
    /\ skillMap = [r \in RunSet |-> <<>>]
    /\ allSkills = [r \in RunSet |-> <<>>]
    /\ results = [r \in RunSet |-> <<>>]
    /\ report = [r \in RunSet |-> NoReport]
    /\ hubAvailable = FALSE
    /\ exitStatus = -1 /\ stdout = FALSE /\ shellLog = <<>>
    /\ call \in {[pending |-> TRUE, skillName |-> n] : n \in UsageNames}
    /\ ret = NoRet

-----------------------------------------------------------------------------
(* Actions *)

\* one iteration of the loop over SKILL_DIRS; a rejected readFile ends main in
\* main().catch
ReadDir ==
    /\ pc = "read" /\ d <= Len(SKILL_DIRS)
    /\ LET root == SKILL_DIRS[d]
           got == [r \in RunSet |-> getSkillsFromDir(root, r)]
       IN  IF \E r \in RunSet : got[r].threw
           THEN /\ pc' = "failed" /\ exitStatus' = 1
                /\ UNCHANGED <<d, skillMap>>
           ELSE /\ skillMap' = [r \in RunSet |->
                                   MergeSkills(skillMap[r], got[r].skills, 1, dirLabel(root))]
                /\ d' = d + 1
                /\ pc' = IF d + 1 > Len(SKILL_DIRS) THEN "sort" ELSE "read"
                /\ UNCHANGED exitStatus
    /\ UNCHANGED <<fs, renamed, memory, procEnv, hostBins, SKILL_DIRS, SKIP_HUB, DAYS_BACK,
                   now, i, allSkills, hubAvailable, results, report, stdout, shellLog,
                   call, ret>>

\* allSkills and hubAvailable
SortSkills ==
    /\ pc = "sort"
    /\ allSkills' = [r \in RunSet |-> SortedSkills(skillMap[r])]
    /\ LET ce == commandExists(<<"clawdhub">>, memory, shellLog)
       IN  IF SKIP_HUB
           THEN hubAvailable' = FALSE /\ UNCHANGED <<memory, shellLog>>
           ELSE hubAvailable' = ce.exists /\ memory' = ce.memory /\ shellLog' = ce.log
    /\ pc' = "process" /\ i' = 1
    /\ UNCHANGED <<fs, renamed, procEnv, hostBins, SKILL_DIRS, SKIP_HUB, DAYS_BACK, now, d,
                   skillMap, results, report, exitStatus, stdout, call, ret>>

\* one iteration of the loop over allSkills
ProcessSkill ==
    /\ pc = "process"
    /\ \E r \in RunSet : i <= Len(allSkills[r])
    /\ \E kind \in (IF hubAvailable THEN SearchKinds ELSE {"none"}) :
         LET live == {r \in RunSet : i <= Len(allSkills[r])}
             out == [r \in live |-> ProcessOne(allSkills[r][i], kind, memory, shellLog)]
             lead == CHOOSE r \in live : \A q \in live : r <= q
         IN  /\ memory' = out[lead].memory
             /\ shellLog' = out[lead].log
             /\ IF \E r \in live : out[r].threw
                THEN /\ pc' = "failed" /\ exitStatus' = 1
                     /\ UNCHANGED <<i, results>>
                ELSE /\ results' = [r \in RunSet |->
                                       IF r \in live THEN Append(results[r], out[r].row)
                                       ELSE results[r]]
                     /\ i' = i + 1
                     /\ UNCHANGED <<pc, exitStatus>>
    /\ UNCHANGED <<fs, renamed, procEnv, hostBins, SKILL_DIRS, SKIP_HUB, DAYS_BACK, now, d,
                   skillMap, allSkills, hubAvailable, report, stdout, call, ret>>

\* the tally, the report and console.log
Render ==
    /\ pc = "process"
    /\ \A r \in RunSet : i > Len(allSkills[r])
    /\ report' = [r \in RunSet |-> Report(allSkills[r], results[r])]
    /\ stdout' = TRUE
    /\ exitStatus' = 0
    /\ pc' = "done"
    /\ UNCHANGED <<fs, renamed, memory, procEnv, hostBins, SKILL_DIRS, SKIP_HUB, DAYS_BACK,
                   now, d, i, skillMap, allSkills, hubAvailable, results, shellLog, call, ret>>

\* checkUsage called on its own
CallCheckUsage ==
    /\ pc = "call" /\ call.pending
    /\ LET u == checkUsage(call.skillName, memory, DAYS_BACK, now)
       IN  ret' = IF u.threw THEN [st |-> "threw", count |-> 0]
                  ELSE [st |-> "returned", count |-> u.count]
    /\ call' = [call EXCEPT !.pending = FALSE]
    /\ UNCHANGED <<fs, renamed, memory, procEnv, hostBins, SKILL_DIRS, SKIP_HUB, DAYS_BACK,
                   now, pc, d, i, skillMap, allSkills, hubAvailable, results, report,
                   exitStatus, stdout, shellLog>>

Next == ReadDir \/ SortSkills \/ ProcessSkill \/ Render

NextUsage == CallCheckUsage

Spec == Init /\ [][Next]_vars
SpecRead == InitRead /\ [][Next]_vars
SpecRename == InitRename /\ [][Next]_vars
SpecUsage == InitUsage /\ [][NextUsage]_vars

-----------------------------------------------------------------------------
(* Properties *)

V12 == <<"1", ".", "2">>

Rows(r) == {results[r][k] : k \in 1..Len(results[r])}

\* a declared executable that is one plain word
IsPlainName(b) == Len(b) = 1

\* the row declares a plain executable name that the host does not resolve
DeclaresAbsentBin(row) ==
    \E k \in 1..Len(row.health.bins) :
        IsPlainName(row.health.bins[k]) /\ row.health.bins[k][1] \notin hostBins

ConcreteVersion(v) == v # VNotFound /\ v # VNA /\ v # VError

\* the documented precedence chain for a skill with no missing executable
DocumentedChain(version, usage) ==
    IF ConcreteVersion(version) THEN (IF usage > 0 THEN "keep" ELSE "review")
    ELSE IF usage > 0 THEN "keep"
    ELSE "review"

\* C2: with no missing executable the recommendation is the documented chain,
\* first match wins: a concrete version gives keep when used and review when
\* not; otherwise keep when used; otherwise review.  No row is `update`.
Thm_C2 ==
    \A r \in RunSet : \A row \in Rows(r) :
        /\ row.rec # "update"
        /\ Len(row.health.missingBins) = 0
               => row.rec = DocumentedChain(row.hub.version, row.usage)

\* one report with (concrete version, usage 3) kept and (not found, usage 0) reviewed
Wit_C2 ==
    /\ pc = "done"
    /\ \E row \in Rows(1) :
           /\ Len(row.health.missingBins) = 0 /\ row.hub.version = V12
           /\ row.usage = 3 /\ row.rec = "keep"
    /\ \E row \in Rows(1) :
           /\ Len(row.health.missingBins) = 0 /\ row.hub.version = VNotFound
           /\ row.usage = 0 /\ row.rec = "review"

\* the configured positions whose root holds dirName/SKILL.md
RootsWith(n) ==
    {k \in 1..Len(SKILL_DIRS) :
        fs[SKILL_DIRS[k]].exists /\ fs[SKILL_DIRS[k]].entries[n].st # "missing"}

\* the distinct subdirectory names, over all configured roots, that hold a SKILL.md
DescribedNames == {n \in DirNames : RootsWith(n) # {}}

\* the last configured root that holds dirName/SKILL.md
LastRootWith(n) == SKILL_DIRS[CHOOSE k \in RootsWith(n) : \A q \in RootsWith(n) : q <= k]

\* the metadata blob of a descriptor as written, {} when absent or unparseable
WrittenMeta(root, n) ==
    LET raw == fs[root].entries[n].metadata
    IN  IF raw.kind = "json" THEN raw.json ELSE EmptyObj

\* C3: once every configured directory has been read, there is one record for
\* each distinct subdirectory name that holds a SKILL.md in some root, it is the
\* record of the last such root in the configured order, and the report has one
\* row for each.
Thm_C3 ==
    pc \in {"sort", "process", "done"} =>
        /\ Len(skillMap[1]) = Cardinality(DescribedNames)
        /\ \A n \in DescribedNames :
               \E k \in 1..Len(skillMap[1]) :
                   /\ skillMap[1][k].val.dirName = n
                   /\ skillMap[1][k].val.source = dirLabel(LastRootWith(n))
                   /\ skillMap[1][k].val.path = <<LastRootWith(n), n>>
                   /\ skillMap[1][k].val.meta = WrittenMeta(LastRootWith(n), n)
        /\ pc \in {"process", "done"} => Len(allSkills[1]) = Cardinality(DescribedNames)
        /\ pc = "done" =>
               /\ Len(report[1].rows) = Cardinality(DescribedNames)
               /\ report[1].total = Cardinality(DescribedNames)
               /\ {report[1].rows[k].name.dirName : k \in 1..Len(report[1].rows)}
                      = DescribedNames

\* a report over two roots that both hold `a`, with different metadata, and a
\* second skill
Wit_C3 ==
    /\ pc = "done" /\ Len(SKILL_DIRS) >= 2
    /\ fs[1].exists /\ fs[2].exists
    /\ fs[1].entries[NameA] = FileEntry(RawJson(MetaBoth))
    /\ fs[2].entries[NameA] = FileEntry(RawBad)
    /\ fs[1].entries[NameAB].st = "file"
    /\ Len(report[1].rows) = 2

\* a record without its declared name
WithoutName(s) ==
    [dirName |-> s.dirName, meta |-> s.meta, path |-> s.path, source |-> s.source]

\* a result row without the declared name of its skill
RowWithoutName(row) == [row EXCEPT !.skill = WithoutName(row.skill)]

Claim_C6 ==
    /\ pc # "failed" /\ exitStatus # 1
    /\ pc = "done" =>
           /\ stdout /\ exitStatus = 0
           /\ \A n \in DirNames :
                  (\E k \in 1..Len(SKILL_DIRS) :
                       fs[SKILL_DIRS[k]].exists /\ fs[SKILL_DIRS[k]].entries[n].st = "file")
                      => \E k \in 1..Len(report[1].rows) : report[1].rows[k].name.dirName = n

\* C5 as claimed: no step of a run changes the skill directories, the log
\* files, the process environment or the host's executables, and the only
\* commands the spawned shells run are presence lookups and registry searches.
Claim_C5 ==
    [][/\ fs' = fs /\ memory' = memory /\ procEnv' = procEnv /\ hostBins' = hostBins
       /\ \A k \in 1..Len(shellLog') : shellLog'[k].prog \in {"command", "clawdhub"}]_vars

\* the registry searches the shells have run for skillName
SearchesFor(skillName) ==
    {k \in 1..Len(shellLog) :
        shellLog[k].prog = "clawdhub" /\ shellLog[k].args = <<"search", skillName>>}

AllSearches == {k \in 1..Len(shellLog) : shellLog[k].prog = "clawdhub"}

\* C7: with lookups enabled and the tool present, every processed skill has had
\* exactly one search (no retry); a search that failed gives that skill the
\* result "error" and a search that ran gives it what the output says; every
\* search is followed by its skill's row, so a failed search ends no run; a
\* finished run has a row and a search for every skill.  With lookups disabled
\* or the tool absent no search is run and every result is "n/a".
Thm_C7 ==
    /\ hubAvailable =>
           /\ Cardinality(AllSearches) = Len(results[1])
           /\ \A row \in Rows(1) :
                  /\ Cardinality(SearchesFor(row.skill.dirName)) = 1
                  /\ \A k \in SearchesFor(row.skill.dirName) :
                         IF shellLog[k].status # 0
                         THEN row.hub = [available |-> TRUE, version |-> VError]
                         ELSE /\ row.hub.available
                              /\ row.hub.version \in {V12, VUnknown, VNotFound}
           /\ pc = "done" => Len(results[1]) = Len(allSkills[1])
    /\ ~hubAvailable =>
           /\ AllSearches = {}
           /\ \A row \in Rows(1) : row.hub = [available |-> FALSE, version |-> VNA]

\* a finished run whose first search failed and whose second and third found a
\* version and nothing
Wit_C7 ==
    /\ pc = "done" /\ hubAvailable /\ Len(results[1]) = 3
    /\ results[1][1].hub.version = VError
    /\ results[1][2].hub.version = V12
    /\ results[1][3].hub.version = VNotFound
    /\ Cardinality(AllSearches) = 3

\* the pattern the usage scanner documents: the identifier's characters as they
\* are, a hyphen standing for whitespace or a hyphen
LiteralPattern(skillName) ==
    [ok |-> TRUE,
     atoms |-> [k \in 1..Len(skillName) |->
                   [tok |-> IF skillName[k] = "-" THEN SepClass ELSE skillName[k],
                    plus |-> FALSE]]]

\* whether the scan includes the file: a YYYY-MM-DD.md file by its date string,
\* another .log or .md file by its modification time, no other file
Included(f, days, t) ==
    IF f.ext = "md" /\ Len(f.stem) = 10
       /\ \A k \in {1, 2, 3, 4, 6, 7, 9, 10} : f.stem[k] \in Digits
       /\ f.stem[5] = "-" /\ f.stem[8] = "-"
    THEN StrGE(f.stem, ISODate(t - days * 24), 1)
    ELSE f.ext \in {"log", "md"} /\ f.mtime >= t - days * 24

RECURSIVE SumIncluded(_, _, _, _, _)
SumIncluded(files, k, pattern, days, t) ==
    IF k > Len(files) THEN 0
    ELSE (IF Included(files[k], days, t) THEN MatchCount(pattern, files[k].content) ELSE 0)
         + SumIncluded(files, k + 1, pattern, days, t)

\* C8 as claimed: for every identifier, window and log directory, checkUsage
\* returns the sum over the included files of the matches of the identifier's
\* pattern, and 0 when the directory does not exist.
Claim_C8 ==
    ret.st # "none" =>
        /\ ret.st = "returned"
        /\ ret.count = IF memory.exists
                       THEN SumIncluded(memory.files, 1, LiteralPattern(call.skillName),
                                        DAYS_BACK, now)
                       ELSE 0

\* the same for the identifiers made of letters and hyphens only
UsageOfPlainNames ==
    (ret.st # "none" /\ \A k \in 1..Len(call.skillName) : call.skillName[k] # "+")
        => Claim_C8

\* the lines of the needs-attention section that name the skill
LinesOf(att, dirName) == {j \in 1..Len(att.lines) : att.lines[j].skill = dirName}

\* C9: the needs-attention section lists first the `remove` skills, each with
\* its missing executables, then the skills with a missing environment variable
\* that are not `remove`; a skill is listed at most once, and is listed exactly
\* when it has a missing executable or a missing environment variable; the
\* no-critical-issues line is printed exactly when both lists are empty.
Thm_C9 ==
    pc = "done" =>
        LET att == report[1].attention
            rs == results[1]
        IN  /\ att.noIssues
                   = (\A row \in Rows(1) :
                          row.rec # "remove" /\ Len(row.health.missingEnvs) = 0)
            /\ att.noIssues => att.lines = <<>>
            /\ \A j, l \in 1..Len(att.lines) :
                   j < l => ~(att.lines[j].icon = "missing-env" /\ att.lines[l].icon = "broken")
            /\ \A j, l \in 1..Len(att.lines) :
                   j < l =>
                       \E a, b \in 1..Len(rs) :
                           /\ rs[a].skill.dirName = att.lines[j].skill
                           /\ rs[b].skill.dirName = att.lines[l].skill
                           /\ att.lines[j].icon = att.lines[l].icon => a < b
            /\ \A row \in Rows(1) :
                   /\ Cardinality(LinesOf(att, row.skill.dirName)) <= 1
                   /\ (LinesOf(att, row.skill.dirName) # {})
                          = (Len(row.health.missingBins) > 0 \/ Len(row.health.missingEnvs) > 0)
                   /\ \A j \in LinesOf(att, row.skill.dirName) :
                          IF row.rec = "remove"
                          THEN att.lines[j].icon = "broken"
                               /\ att.lines[j].items = row.health.missingBins
                          ELSE att.lines[j].icon = "missing-env"
                               /\ att.lines[j].items = row.health.missingEnvs
            /\ \A j \in 1..Len(att.lines) :
                   \E row \in Rows(1) : row.skill.dirName = att.lines[j].skill

\* a report whose section lists a skill missing only a variable after a removed
\* skill that misses an executable and a variable
Wit_C9 ==
    /\ pc = "done" /\ Len(results[1]) = 3
    /\ Len(results[1][1].health.missingEnvs) > 0 /\ results[1][1].rec # "remove"
    /\ Len(results[1][2].health.missingBins) > 0 /\ Len(results[1][2].health.missingEnvs) > 0
    /\ Len(results[1][3].health.missingBins) = 0 /\ Len(results[1][3].health.missingEnvs) = 0
    /\ Len(report[1].attention.lines) = 2
    /\ report[1].attention.lines[1].skill = NameAB
    /\ report[1].attention.lines[2].skill = NameA

\* the items the report shows for the skill under a marker: in its detail row
\* and in its needs-attention lines
ShownInRow(rep, k, icon) ==
    IF rep.rows[k].health.icon = icon
    THEN {rep.rows[k].health.items[j] : j \in 1..Len(rep.rows[k].health.items)}
    ELSE {}

ShownInAttention(rep, dirName, icon) ==
    UNION {{rep.attention.lines[j].items[x] : x \in 1..Len(rep.attention.lines[j].items)} :
              j \in {l \in LinesOf(rep.attention, dirName) : rep.attention.lines[l].icon = icon}}

Elems(sq) == {sq[k] : k \in 1..Len(sq)}

\* the health column shows the checkmark exactly when nothing is missing, and a
\* skill that declares nothing is shown healthy
CheckmarkIffHealthy ==
    \A k \in 1..Len(results[1]) :
        /\ (report[1].rows[k].health.icon = "check")
               = (results[1][k].health.missingBins = <<>>
                  /\ results[1][k].health.missingEnvs = <<>>)
        /\ (results[1][k].health.bins = <<>> /\ results[1][k].health.envs = <<>>)
               => report[1].rows[k].health.icon = "check"

\* every missing executable is shown under the missing-bin marker
MissingBinsShown ==
    \A k \in 1..Len(results[1]) :
        Elems(results[1][k].health.missingBins)
            \subseteq (ShownInRow(report[1], k, "cross")
                       \cup ShownInAttention(report[1], results[1][k].skill.dirName, "broken"))

\* the missing environment variables of row k are shown under the missing-env marker
MissingEnvsShown(k) ==
    Elems(results[1][k].health.missingEnvs)
        \subseteq (ShownInRow(report[1], k, "warn-env")
                   \cup ShownInAttention(report[1], results[1][k].skill.dirName, "missing-env"))

\* C10 as claimed: every missing executable and every missing environment
\* variable of every skill is shown with its marker somewhere in the report,
\* also for a skill that misses both, and the checkmark means nothing is missing.
Claim_C10 ==
    pc = "done" =>
        /\ CheckmarkIffHealthy
        /\ MissingBinsShown
        /\ \A k \in 1..Len(results[1]) : MissingEnvsShown(k)

\* C10 as amended: every missing executable is shown with the missing-bin
\* marker; the missing environment variables of a skill with no missing
\* executable are shown with the missing-env marker, in its row and in the
\* needs-attention section; a skill that misses both shows its executables only;
\* the checkmark means nothing is missing.
Thm_C10 ==
    pc = "done" =>
        /\ CheckmarkIffHealthy
        /\ MissingBinsShown
        /\ \A k \in 1..Len(results[1]) :
               IF results[1][k].health.missingBins = <<>>
               THEN /\ MissingEnvsShown(k)
                    /\ results[1][k].health.missingEnvs # <<>> =>
                           /\ ShownInRow(report[1], k, "warn-env") # {}
                           /\ ShownInAttention(report[1], results[1][k].skill.dirName,
                                               "missing-env") # {}
               ELSE /\ ShownInRow(report[1], k, "warn-env") = {}
                    /\ ShownInAttention(report[1], results[1][k].skill.dirName,
                                        "missing-env") = {}

\* a report with a skill that misses an executable and a variable, one that
\* misses variables only, and one that declares nothing
Wit_C10 ==
    /\ pc = "done" /\ Len(results[1]) = 3
    /\ \E k \in 1..3 : /\ results[1][k].health.missingBins # <<>>
                       /\ results[1][k].health.missingEnvs # <<>>
    /\ \E k \in 1..3 : /\ results[1][k].health.missingBins = <<>>
                       /\ Len(results[1][k].health.missingEnvs) = 2
    /\ \E k \in 1..3 : /\ results[1][k].health.bins = <<>>
                       /\ results[1][k].health.envs = <<>>
                       /\ report[1].rows[k].health.icon = "check"

====
